---- MODULE Spec2Model ----
(***************************************************************************)
(* A model of the gibberish detector (src/src/train.ts): the text          *)
(* sanitizer, the bigram frequency extractor (train), the line scorer      *)
(* (assignScore), the baseline calibrator (scoreLines), the model          *)
(* validator (isValidModel) and the classifier (testGibberish).            *)
(*                                                                         *)
(* A JavaScript string is a sequence of characters; a character is a TLA+  *)
(* string naming it ("a", " ", "LF", "U+00E9", ...).  A JavaScript number  *)
(* is a record: a finite rational in lowest terms, NaN, or +-Infinity.     *)
(***************************************************************************)
EXTENDS Integers, Sequences, FiniteSets, TLC

VARIABLES
    sample,      \* sanitizer: the string first handed to sanitizeText
    passes,      \* sanitizer: the results of the successive sanitizeText calls
    loaded,      \* validator: the value JSON.parse produced from the model file
    valid,       \* validator: what isValidModel(loaded) did
    text,        \* scorer: the suspect string
    matrix,      \* scorer: the frequency table (XYPair[])
    baseline,    \* scorer: the model's baseline {good, bad}
    scores,      \* scorer: assignScore results, per useCache setting
    verdict,     \* scorer: the last testGibberish call and its result
    trainArgs,   \* trainer: the arguments of train
    model,       \* trainer: the model train returned
    probe        \* trainer: the last testGibberish call against the trained model

vars == <<sample, passes, loaded, valid, text, matrix, baseline, scores,
          verdict, trainArgs, model, probe>>

sanVars   == <<sample, passes>>
valVars   == <<loaded, valid>>
scoreVars == <<text, matrix, baseline, scores, verdict>>
trainVars == <<trainArgs, model, probe>>

----------------------------------------------------------------------------
(* Bounds *)

MaxSampleLen == 3    \* longest string handed to sanitizeText
MaxPasses    == 2    \* how many times sanitizeText is applied in a row
MaxMatrixLen == 2    \* most entries of a loaded model's matrix
MaxTextLen   == 3    \* longest suspect string
MaxTableLen  == 2    \* most entries of a frequency table handed to assignScore
MaxCount     == 2    \* largest count of such a table's entries
MaxCorpusLen == 4    \* longest training corpus
MaxLines     == 1    \* most reference lines of an array handed to train

----------------------------------------------------------------------------
(* Characters *)

SP  == " "
LF  == "LF"        \* U+000A
CR  == "CR"        \* U+000D
TAB == "TAB"       \* U+0009
NBSP == "U+00A0"   \* no-break space: matched by \s, not ASCII
EACUTE == "U+00E9" \* e with acute: NFD gives "e" followed by U+0301
ACUTE == "U+0301"  \* combining acute accent
SNOWMAN == "U+2603"     \* no decomposition, not ASCII
GREEKQ == "U+037E" \* Greek question mark: NFD gives ";" (U+003B)
KELVIN == "U+212A" \* Kelvin sign: NFD gives "K"

\* /[!?.;]/ of sanitizeText
Terminators == {"!", "?", ".", ";"}

\* the characters of the model that /\s/ matches
Whitespace == {SP, LF, CR, TAB, NBSP}

\* the characters of the model outside \u0000-\u007F
NonAscii == {NBSP, EACUTE, ACUTE, SNOWMAN, GREEKQ, KELVIN}

\* the characters of the model in U+0300..U+036F
CombiningMarks == {ACUTE}

\* String.prototype.normalize('NFD') on one character
Decompose(c) ==
    CASE c = EACUTE -> <<"e", ACUTE>>
      [] c = GREEKQ -> <<";">>
      [] c = KELVIN -> <<"K">>
      [] OTHER      -> <<c>>

\* String.prototype.toLowerCase on one character
LowerChar(c) ==
    CASE c = "A" -> "a"
      [] c = "B" -> "b"
      [] c = "K" -> "k"
      [] c = KELVIN -> "k"
      [] OTHER   -> c

----------------------------------------------------------------------------
(* Strings *)

Strings(alphabet, n) == UNION {[1..k -> alphabet] : k \in 0..n}

\* s.normalize('NFD'): every character replaced by its canonical decomposition
RECURSIVE NormalizeNFD(_)
NormalizeNFD(s) ==
    IF s = <<>> THEN <<>> ELSE Decompose(s[1]) \o NormalizeNFD(Tail(s))

\* s.split(c).join(' ') and s.replace(/[set]/g, ' ') for single characters
ReplaceEach(s, set) == [i \in 1..Len(s) |-> IF s[i] \in set THEN SP ELSE s[i]]

\* s.split('\r\n').join(' ')
RECURSIVE ReplaceCRLF(_)
ReplaceCRLF(s) ==
    IF s = <<>> THEN <<>>
    ELSE IF Len(s) >= 2 /\ s[1] = CR /\ s[2] = LF
         THEN <<SP>> \o ReplaceCRLF(SubSeq(s, 3, Len(s)))
         ELSE <<s[1]>> \o ReplaceCRLF(Tail(s))

\* s.replace(/\s+/g, ' ')
RECURSIVE CollapseWhitespace(_)
CollapseWhitespace(s) ==
    IF s = <<>> THEN <<>>
    ELSE IF s[1] \in Whitespace
         THEN IF Len(s) >= 2 /\ s[2] \in Whitespace
              THEN CollapseWhitespace(Tail(s))
              ELSE <<SP>> \o CollapseWhitespace(Tail(s))
         ELSE <<s[1]>> \o CollapseWhitespace(Tail(s))

\* s.toLowerCase()
ToLowerCase(s) == [i \in 1..Len(s) |-> LowerChar(s[i])]

\* s.trim()
RECURSIVE TrimStart(_)
TrimStart(s) ==
    IF s # <<>> /\ s[1] \in Whitespace THEN TrimStart(Tail(s)) ELSE s

RECURSIVE TrimEnd(_)
TrimEnd(s) ==
    IF s # <<>> /\ s[Len(s)] \in Whitespace
    THEN TrimEnd(SubSeq(s, 1, Len(s) - 1)) ELSE s

Trim(s) == TrimEnd(TrimStart(s))

\* s.split('\n'): the pieces between line feeds, always at least one
RECURSIVE SplitLF(_, _)
SplitLF(s, cur) ==
    IF s = <<>> THEN <<cur>>
    ELSE IF s[1] = LF THEN <<cur>> \o SplitLF(Tail(s), <<>>)
         ELSE SplitLF(Tail(s), Append(cur, s[1]))

----------------------------------------------------------------------------
(* Sanitizer *)

NotMark(c)  == c \notin CombiningMarks
IsAscii(c)  == c \notin NonAscii

convertToLatinEquivalent(inputString) ==
    LET normalizedString == SelectSeq(NormalizeNFD(inputString), NotMark)
    IN  SelectSeq(normalizedString, IsAscii)

sanitizeText(s) ==
    LET s1 == ReplaceCRLF(s)
        s2 == ReplaceEach(s1, {LF})
        s3 == ReplaceEach(s2, {TAB})
        s4 == ReplaceEach(s3, Terminators)
        s5 == CollapseWhitespace(s4)
    IN  convertToLatinEquivalent(s5)

SanChars == {"a", SP, LF, CR, ".", EACUTE, ACUTE, SNOWMAN, GREEKQ}

----------------------------------------------------------------------------
(* JavaScript numbers: [n, d] is n/d in lowest terms with d > 0;           *)
(* d = 0 encodes NaN (n = 0), Infinity (n = 1) and -Infinity (n = -1).     *)

RECURSIVE GCD(_, _)
GCD(a, b) == IF b = 0 THEN a ELSE GCD(b, a % b)

Abs(i) == IF i < 0 THEN -i ELSE i

Fin(n, d) ==
    LET g == GCD(Abs(n), d) IN [n |-> n \div g, d |-> d \div g]

NaN    == [n |-> 0, d |-> 0]
PosInf == [n |-> 1, d |-> 0]
NegInf == [n |-> -1, d |-> 0]
Num(i) == Fin(i, 1)

IsNaN(a)    == a.d = 0 /\ a.n = 0
IsFinite(a) == a.d > 0

\* a <= b: false whenever an operand is NaN
Le(a, b) ==
    IF IsNaN(a) \/ IsNaN(b) THEN FALSE
    ELSE IF a.d = 0 THEN a.n = -1 \/ b = PosInf
    ELSE IF b.d = 0 THEN b.n = 1
    ELSE a.n * b.d <= b.n * a.d

\* a < b: false whenever an operand is NaN
Lt(a, b) ==
    IF IsNaN(a) \/ IsNaN(b) THEN FALSE
    ELSE IF a.d = 0 THEN a.n = -1 /\ b # NegInf
    ELSE IF b.d = 0 THEN b.n = 1
    ELSE a.n * b.d < b.n * a.d

\* a + b
Add(a, b) ==
    IF IsNaN(a) \/ IsNaN(b) THEN NaN
    ELSE IF a.d = 0 THEN (IF b.d = 0 /\ b.n # a.n THEN NaN ELSE a)
    ELSE IF b.d = 0 THEN b
    ELSE Fin(a.n * b.d + b.n * a.d, a.d * b.d)

\* a / k for an integer k >= 0
DivBy(a, k) ==
    IF IsNaN(a) THEN NaN
    ELSE IF a.d = 0 THEN a
    ELSE IF k = 0 THEN (IF a.n = 0 THEN NaN ELSE IF a.n > 0 THEN PosInf ELSE NegInf)
    ELSE Fin(a.n, a.d * k)

\* Math.min(...s): Infinity for no argument, NaN when an argument is NaN
RECURSIVE MathMin(_)
MathMin(s) ==
    IF s = <<>> THEN PosInf
    ELSE LET m == MathMin(Tail(s))
         IN  IF IsNaN(s[1]) \/ IsNaN(m) THEN NaN
             ELSE IF Le(s[1], m) THEN s[1] ELSE m

\* Math.max(...s): -Infinity for no argument, NaN when an argument is NaN
RECURSIVE MathMax(_)
MathMax(s) ==
    IF s = <<>> THEN NegInf
    ELSE LET m == MathMax(Tail(s))
         IN  IF IsNaN(s[1]) \/ IsNaN(m) THEN NaN
             ELSE IF Le(m, s[1]) THEN s[1] ELSE m

\* s.reduce((a, b) => a + b, 0)
RECURSIVE SumFrom(_, _)
SumFrom(acc, s) ==
    IF s = <<>> THEN acc ELSE SumFrom(Add(acc, s[1]), Tail(s))

----------------------------------------------------------------------------
(* Line scorer *)

Undefined == <<>>          \* a JavaScript value that is absent
Some(v)   == <<v>>

\* split[i] for a JavaScript (0-based) index: undefined past the end
At(split, i) == IF i < Len(split) THEN Some(split[i + 1]) ELSE Undefined

\* !c for a string-or-undefined c: only undefined and "" are falsy
FalsyChar(c) == c = Undefined \/ c[1] = ""

\* if (modelFind): undefined and 0 are falsy
TruthyCount(f) == f # Undefined /\ f[1] # 0

EmptyMap == <<>>
MapHas(m, k) == k \in DOMAIN m
MapSet(m, k, v) == [q \in (DOMAIN m) \cup {k} |-> IF q = k THEN v ELSE m[q]]

RECURSIVE IntoMap(_, _)
IntoMap(map, jsonArray) ==
    IF jsonArray = <<>> THEN map
    ELSE IntoMap(MapSet(map, jsonArray[1].x, jsonArray[1].y), Tail(jsonArray))

convertJSONMatrixIntoMap(jsonArray) == IntoMap(EmptyMap, jsonArray)

\* a cache hit that yields the cache's "has" flag instead of the cached count
FindPairFlag(letterPair, matrixMap, modelCache, useCache) ==
    IF useCache /\ MapHas(modelCache, letterPair)
    THEN [modelFind |-> Some(1), modelCache |-> modelCache]
    ELSE IF MapHas(matrixMap, letterPair)
    THEN [modelFind  |-> Some(matrixMap[letterPair]),
          modelCache |-> IF useCache
                         THEN MapSet(modelCache, letterPair, matrixMap[letterPair])
                         ELSE modelCache]
    ELSE [modelFind |-> Undefined, modelCache |-> modelCache]

\* the lookup of one letter pair: the memo first, then the table's map
FindPair(letterPair, matrixMap, modelCache, useCache) ==
    IF useCache /\ MapHas(modelCache, letterPair)
    THEN [modelFind |-> Some(modelCache[letterPair]), modelCache |-> modelCache]
    ELSE IF MapHas(matrixMap, letterPair)
    THEN [modelFind  |-> Some(matrixMap[letterPair]),
          modelCache |-> IF useCache
                         THEN MapSet(modelCache, letterPair, matrixMap[letterPair])
                         ELSE modelCache]
    ELSE [modelFind |-> Undefined, modelCache |-> modelCache]

\* the for loop of assignScore from index x on
RECURSIVE ScoreLoop(_, _, _, _, _, _, _)
ScoreLoop(split, x, pairCount, totalScore, modelCache, matrixMap, useCache) ==
    IF ~(x < Len(split)) \/ FalsyChar(At(split, x + 1))
    THEN [pairCount |-> pairCount, totalScore |-> totalScore]
    ELSE LET letterPair == <<split[x + 1], split[x + 2]>>
             f == FindPair(letterPair, matrixMap, modelCache, useCache)
         IN  ScoreLoop(split, x + 1, pairCount + 1,
                       IF TruthyCount(f.modelFind)
                       THEN totalScore + f.modelFind[1] ELSE totalScore,
                       f.modelCache, matrixMap, useCache)

\* the loop's totals for a suspect string
ScoreTotals(test, mtx, useCache) ==
    LET sanitized == sanitizeText(test)
        t         == ReplaceEach(sanitized, {LF})
        split     == ToLowerCase(t)
    IN  ScoreLoop(split, 0, 0, 0, EmptyMap, convertJSONMatrixIntoMap(mtx), useCache)

\* assignScore returning the sum of the hits instead of their average
assignScoreSum(test, mtx, useCache) ==
    Num(ScoreTotals(test, mtx, useCache).totalScore)

\* assignScore guarding the division: 0 for a text without pairs
assignScoreGuarded(test, mtx, useCache) ==
    LET r == ScoreTotals(test, mtx, useCache)
    IN  IF r.pairCount = 0 THEN Num(0) ELSE DivBy(Num(r.totalScore), r.pairCount)

assignScore(test, mtx, useCache) ==
    LET r == ScoreTotals(test, mtx, useCache)
    IN  DivBy(Num(r.totalScore), r.pairCount)

----------------------------------------------------------------------------
(* Threshold evaluator and classifier *)

\* the sum of the two baselines, the division by 2 forgotten
calculateThresholdSum(m) == Add(m.baseline.good.min, m.baseline.bad.max)

calculateThreshold(m) == DivBy(Add(m.baseline.good.min, m.baseline.bad.max), 2)

\* the threshold functions a caller passes: none, or one of these
ThresholdFns == {"goodAvg", "badMin"}

CallThresholdFn(fn, m) ==
    CASE fn = "calculateThreshold" -> calculateThreshold(m)
      [] fn = "goodAvg"            -> m.baseline.good.avg
      [] fn = "badMin"             -> m.baseline.bad.min

\* testGibberish comparing with < instead of <=
testGibberishStrict(test, m, thresholdFn, useCache) ==
    LET fn        == IF thresholdFn = Undefined THEN "calculateThreshold"
                     ELSE thresholdFn[1]
        score     == assignScore(test, m.matrix, useCache)
        threshold == CallThresholdFn(fn, m)
    IN  Lt(score, threshold)

testGibberish(test, m, thresholdFn, useCache) ==
    LET fn        == IF thresholdFn = Undefined THEN "calculateThreshold"
                     ELSE thresholdFn[1]
        score     == assignScore(test, m.matrix, useCache)
        threshold == CallThresholdFn(fn, m)
    IN  Le(score, threshold)

getGibberishScore(test, m, useCache) == assignScore(test, m.matrix, useCache)

----------------------------------------------------------------------------
(* Baseline calibrator *)

scoreLines(lines, mtx) ==
    LET lineScores == [i \in 1..Len(lines) |-> assignScore(Trim(lines[i]), mtx, TRUE)]
        min     == MathMin(lineScores)
        max     == MathMax(lineScores)
        average == DivBy(SumFrom(Num(0), lineScores), Len(lineScores))
    IN  [min |-> min, max |-> max, avg |-> average]

----------------------------------------------------------------------------
(* Bigram frequency extractor and model assembly *)

\* a repeated pair that leaves the count of its entry as it was
TrainStepNoIncrement(analysis, analysisCache, letterPair) ==
    IF MapHas(analysisCache, letterPair)
    THEN [analysis |-> analysis, analysisCache |-> analysisCache]
    ELSE [analysis      |-> Append(analysis, [x |-> letterPair, y |-> 1]),
          analysisCache |-> MapSet(analysisCache, letterPair, Len(analysis) + 1)]

\* one window: analysisCache maps a pair to its entry (an index of analysis)
TrainStep(analysis, analysisCache, letterPair) ==
    IF MapHas(analysisCache, letterPair)
    THEN LET i == analysisCache[letterPair]
         IN  [analysis      |-> [analysis EXCEPT ![i].y = @ + 1],
              analysisCache |-> analysisCache]
    ELSE [analysis      |-> Append(analysis, [x |-> letterPair, y |-> 1]),
          analysisCache |-> MapSet(analysisCache, letterPair, Len(analysis) + 1)]

\* the for loop of train from index x on
RECURSIVE TrainLoop(_, _, _, _)
TrainLoop(split, x, analysis, analysisCache) ==
    IF ~(x < Len(split)) \/ FalsyChar(At(split, x + 1))
    THEN analysis
    ELSE LET st == TrainStep(analysis, analysisCache,
                             <<split[x + 1], split[x + 2]>>)
         IN  TrainLoop(split, x + 1, st.analysis, st.analysisCache)

\* e put behind every entry of the descending sequence whose count is >= e.y
RECURSIVE InsertDesc(_, _)
InsertDesc(sorted, e) ==
    IF sorted = <<>> THEN <<e>>
    ELSE IF sorted[1].y >= e.y THEN <<sorted[1]>> \o InsertDesc(Tail(sorted), e)
    ELSE <<e>> \o sorted

\* analysis.sort((a, b) => b.y - a.y): stable, by count descending
RECURSIVE SortDescFrom(_, _)
SortDescFrom(sorted, rest) ==
    IF rest = <<>> THEN sorted
    ELSE SortDescFrom(InsertDesc(sorted, rest[1]), Tail(rest))

\* the sort left out: the entries stay in order of first appearance
SortDescSkipped(analysis) == analysis

SortDesc(analysis) == SortDescFrom(<<>>, analysis)

\* the reference lines: an array as given, a string split on '\n' and trimmed
ArrayArg(lines) == [isArray |-> TRUE, lines |-> lines, str |-> <<>>]
StringArg(str)  == [isArray |-> FALSE, lines |-> <<>>, str |-> str]

ToLines(arg) ==
    IF arg.isArray THEN arg.lines
    ELSE LET pieces == SplitLF(arg.str, <<>>)
         IN  [i \in 1..Len(pieces) |-> Trim(pieces[i])]

train(corpus, goodLines, badLines) ==
    LET sanitized == sanitizeText(corpus)
        split     == ToLowerCase(sanitized)
        analysis  == SortDesc(TrainLoop(split, 0, <<>>, EmptyMap))
    IN  [matrix   |-> analysis,
         baseline |-> [good |-> scoreLines(ToLines(goodLines), analysis),
                       bad  |-> scoreLines(ToLines(badLines), analysis)]]

----------------------------------------------------------------------------
(* JavaScript values, as JSON.parse or a caller can produce them *)

JsNull      == [t |-> "null"]
JsUndefined == [t |-> "undefined"]
JsBool(b)   == [t |-> "boolean", b |-> b]
JsNum(v)    == [t |-> "number", v |-> v]
JsStr(str)  == [t |-> "string", s |-> str]
JsArr(items) == [t |-> "array", items |-> items]
JsObj(fields) == [t |-> "object", fields |-> fields]

\* typeof v
TypeOf(v) == IF v.t \in {"null", "array"} THEN "object" ELSE v.t

IsArray(v) == v.t = "array"

\* !v
Falsy(v) ==
    \/ v.t \in {"null", "undefined"}
    \/ v.t = "boolean" /\ ~v.b
    \/ v.t = "number" /\ v.v = 0
    \/ v.t = "string" /\ v.s = <<>>

\* v.name raises a TypeError exactly when v is null or undefined
CanRead(v) == v.t \notin {"null", "undefined"}

\* v.name for a v that can be read
Get(v, name) ==
    IF v.t = "object" /\ name \in DOMAIN v.fields THEN v.fields[name]
    ELSE JsUndefined

----------------------------------------------------------------------------
(* Model validator: "true", "false", or "TypeError" when the call raises *)

\* the callback of matrix.some: "error" (errorState set, truthy return),
\* "continue" (undefined returned) or "TypeError" (m.x read on null)
MatrixCallback(m) ==
    IF TypeOf(m) # "object" \/ IsArray(m) THEN "error"
    ELSE IF ~CanRead(m) THEN "TypeError"
    ELSE IF TypeOf(Get(m, "x")) # "string" \/ Len(Get(m, "x").s) # 2 THEN "error"
    ELSE IF TypeOf(Get(m, "y")) # "number" THEN "error"
    ELSE "continue"

\* matrix.some(callback): stops at the first truthy return, a raise propagates
RECURSIVE MatrixSome(_)
MatrixSome(items) ==
    IF items = <<>> THEN "true"
    ELSE LET r == MatrixCallback(items[1])
         IN  IF r = "TypeError" THEN "TypeError"
             ELSE IF r = "error" THEN "false"
             ELSE MatrixSome(Tail(items))

isValidMatrix(mtx) ==
    IF Falsy(mtx) \/ ~IsArray(mtx) THEN "false" ELSE MatrixSome(mtx.items)

NotPlainObject(v) == Falsy(v) \/ TypeOf(v) # "object" \/ IsArray(v)

NotNumbers(stats) ==
    \/ TypeOf(Get(stats, "min")) # "number"
    \/ TypeOf(Get(stats, "max")) # "number"
    \/ TypeOf(Get(stats, "avg")) # "number"

isValidModel(m) ==
    IF NotPlainObject(m) THEN "false"
    ELSE LET r == isValidMatrix(Get(m, "matrix"))
         IN  IF r # "true" THEN r
             ELSE IF NotPlainObject(Get(m, "baseline")) THEN "false"
             ELSE IF NotPlainObject(Get(Get(m, "baseline"), "good")) THEN "false"
             ELSE IF NotNumbers(Get(Get(m, "baseline"), "good")) THEN "false"
             ELSE IF NotPlainObject(Get(Get(m, "baseline"), "bad")) THEN "false"
             ELSE IF NotNumbers(Get(Get(m, "baseline"), "bad")) THEN "false"
             ELSE "true"

----------------------------------------------------------------------------
(* Values the variables hold while their component is not exercised *)

IdleStats    == [min |-> Num(0), max |-> Num(0), avg |-> Num(0)]
IdleBaseline == [good |-> IdleStats, bad |-> IdleStats]
IdleArgs     == [corpus |-> <<>>, goodLines |-> ArrayArg(<<>>),
                 badLines |-> ArrayArg(<<>>)]

SanIdle   == sample = <<>> /\ passes = <<>>
ValIdle   == loaded = JsNull /\ valid = "pending"
ScoreIdle == /\ text = <<>> /\ matrix = <<>> /\ baseline = IdleBaseline
             /\ scores = EmptyMap /\ verdict = <<>>
TrainIdle == trainArgs = IdleArgs /\ model = Undefined /\ probe = <<>>

----------------------------------------------------------------------------
(* Sanitizer: sanitizeText applied to a string, then to its own result *)

SanInputs == Strings(SanChars, MaxSampleLen)

InitSanitize ==
    /\ sample \in SanInputs
    /\ passes = <<>>
    /\ ValIdle /\ ScoreIdle /\ TrainIdle

SanitizeFirst ==
    /\ passes = <<>>
    /\ passes' = <<sanitizeText(sample)>>
    /\ UNCHANGED <<sample, valVars, scoreVars, trainVars>>

SanitizeAgain ==
    /\ passes # <<>>
    /\ Len(passes) < MaxPasses
    /\ passes' = Append(passes, sanitizeText(passes[Len(passes)]))
    /\ UNCHANGED <<sample, valVars, scoreVars, trainVars>>

NextSanitize == SanitizeFirst \/ SanitizeAgain

SpecSanitize == InitSanitize /\ [][NextSanitize]_vars

\* C8: sanitizeText is idempotent: sanitizing a sanitized string changes nothing.
C8_SanitizeIdempotent ==
    \A i \in 2..Len(passes) : passes[i] = passes[i - 1]

----------------------------------------------------------------------------
(* Validator: isValidModel on whatever the model file held *)

XOk    == JsStr(<<"a", "b">>)
XLong  == JsStr(<<"a", "b", "c">>)
YOk    == JsNum(1)

LoadedEntries ==
    { JsObj([x |-> XOk, y |-> YOk]),
      JsObj([x |-> XLong, y |-> YOk]),
      JsObj([x |-> JsNum(1), y |-> YOk]),
      JsObj([x |-> XOk, y |-> JsStr(<<"1">>)]),
      JsObj([x |-> XOk]),
      JsNull, JsArr(<<>>), JsNum(1), JsStr(<<"a", "b">>) }

LoadedMatrices ==
    {JsArr(items) : items \in Strings(LoadedEntries, MaxMatrixLen)}
      \cup {JsNull, JsObj(<<>>), JsStr(<<"a", "b">>)}

StatsOk == JsObj([min |-> JsNum(0), max |-> JsNum(1), avg |-> JsNum(1)])

LoadedStats ==
    { StatsOk,
      JsObj([min |-> JsNum(0), max |-> JsNum(1)]),
      JsObj([min |-> JsStr(<<"0">>), max |-> JsNum(1), avg |-> JsNum(1)]),
      JsNull, JsArr(<<>>), JsNum(1) }

LoadedBaselines ==
    {JsObj([good |-> g, bad |-> b]) : g \in LoadedStats, b \in LoadedStats}
      \cup {JsObj([good |-> g]) : g \in LoadedStats}
      \cup {JsNull, JsArr(<<>>), JsNum(1)}

LoadedValues ==
    {JsObj([matrix |-> m, baseline |-> b]) : m \in LoadedMatrices, b \in LoadedBaselines}
      \cup {JsObj([matrix |-> m]) : m \in LoadedMatrices}
      \cup {JsObj([baseline |-> b]) : b \in LoadedBaselines}
      \cup {JsObj(<<>>), JsNull, JsUndefined, JsArr(<<>>), JsNum(0), JsNum(1),
            JsStr(<<>>), JsStr(<<"a">>), JsBool(TRUE), JsBool(FALSE)}

InitValidate ==
    /\ loaded \in LoadedValues
    /\ valid = "pending"
    /\ SanIdle /\ ScoreIdle /\ TrainIdle

Validate ==
    /\ valid = "pending"
    /\ valid' = isValidModel(loaded)
    /\ UNCHANGED <<loaded, sanVars, scoreVars, trainVars>>

NextValidate == Validate

SpecValidate == InitValidate /\ [][NextValidate]_vars

\* C2: isValidModel returns a boolean for every input and never raises.
C2_ValidatorNeverRaises == valid \in {"pending", "true", "false"}

IsPlainObject(v) == v.t = "object"
IsNumber(v)      == v.t = "number"
HasNumber(v, name) == name \in DOMAIN v.fields /\ IsNumber(v.fields[name])
HasObject(v, name) == name \in DOMAIN v.fields /\ IsPlainObject(v.fields[name])

WellFormedEntry(e) ==
    /\ IsPlainObject(e)
    /\ "x" \in DOMAIN e.fields /\ e.fields.x.t = "string" /\ Len(e.fields.x.s) = 2
    /\ HasNumber(e, "y")

WellFormedStats(v) ==
    HasNumber(v, "min") /\ HasNumber(v, "max") /\ HasNumber(v, "avg")

WellFormedModel(m) ==
    /\ IsPlainObject(m)
    /\ "matrix" \in DOMAIN m.fields /\ m.fields.matrix.t = "array"
    /\ \A i \in 1..Len(m.fields.matrix.items) :
           WellFormedEntry(m.fields.matrix.items[i])
    /\ HasObject(m, "baseline")
    /\ HasObject(m.fields.baseline, "good")
    /\ WellFormedStats(m.fields.baseline.fields.good)
    /\ HasObject(m.fields.baseline, "bad")
    /\ WellFormedStats(m.fields.baseline.fields.bad)

\* C6: isValidModel returns true exactly for the well-formed models (a plain
\* object with an array matrix of {x: 2-character string, y: number} objects
\* and plain-object baseline.good and baseline.bad with numeric min, max, avg),
\* and returns false for every other value.
C6_ValidatorDecidesWellFormedness ==
    valid # "pending" =>
        valid = (IF WellFormedModel(loaded) THEN "true" ELSE "false")

----------------------------------------------------------------------------
(* Scorer: assignScore on a suspect string and a frequency table *)

TextChars == {"a", "B", "."}
Texts == Strings(TextChars, MaxTextLen)

TableKeys == {<<"a", "a">>, <<"a", "b">>}
TableEntries == [x : TableKeys, y : 0..MaxCount]

\* any table a caller may hand over: repeated keys and zero counts included
Tables == Strings(TableEntries, MaxTableLen)

InitScore ==
    /\ text \in Texts
    /\ matrix \in Tables
    /\ baseline = IdleBaseline
    /\ scores = EmptyMap
    /\ verdict = <<>>
    /\ SanIdle /\ ValIdle /\ TrainIdle

AssignScore(useCache) ==
    /\ ~MapHas(scores, useCache)
    /\ scores' = MapSet(scores, useCache, assignScore(text, matrix, useCache))
    /\ UNCHANGED <<text, matrix, baseline, verdict, sanVars, valVars, trainVars>>

NextScore == \E useCache \in BOOLEAN : AssignScore(useCache)

SpecScore == InitScore /\ [][NextScore]_vars

\* the sanitized, lowercased text and its adjacent pairs
Prepared(t) == ToLowerCase(sanitizeText(t))
PairsOf(s)  == {<<s[i], s[i + 1]>> : i \in 1..(Len(s) - 1)}
KeysOf(mtx) == {mtx[i].x : i \in 1..Len(mtx)}
MaxCountOf(mtx) == MathMax([i \in 1..Len(mtx) |-> Num(mtx[i].y)])

AllPairsHit == PairsOf(Prepared(text)) \subseteq KeysOf(matrix)
NoPairHits  == PairsOf(Prepared(text)) \cap KeysOf(matrix) = {}
HasPair     == Len(Prepared(text)) >= 2

\* C7: the useCache flag does not change the score of a text against a table.
C7_CacheDoesNotChangeScore ==
    (MapHas(scores, TRUE) /\ MapHas(scores, FALSE)) => scores[TRUE] = scores[FALSE]

\* C7 witness: both settings scored a text whose repeated pair was served
\* from the memo and counted twice.
C7_Witness ==
    /\ MapHas(scores, TRUE) /\ MapHas(scores, FALSE)
    /\ Prepared(text) = <<"a", "a", "a">>
    /\ scores[TRUE] = Num(2)

\* C10 as stated: for every text, a score <= the table's largest count when
\* every pair hits, and a score of 0 when no pair hits.
C10_ScoreBoundedForEveryText ==
    \A c \in DOMAIN scores :
        /\ AllPairsHit => Le(scores[c], MaxCountOf(matrix))
        /\ NoPairHits  => scores[c] = Num(0)

\* C10 amended: for every text with at least one adjacent pair (2 characters
\* or more once sanitized), the score is <= the table's largest count when
\* every pair hits, and is 0 when no pair hits.
C10_ScoreBoundedWhenPairsExist ==
    \A c \in DOMAIN scores :
        HasPair => /\ AllPairsHit => Le(scores[c], MaxCountOf(matrix))
                   /\ NoPairHits  => scores[c] = Num(0)

\* C10 witness: a scored text of two pairs, both hits, reaching the largest count.
C10_Witness ==
    /\ scores # EmptyMap
    /\ Len(Prepared(text)) = 3 /\ AllPairsHit
    /\ \E c \in DOMAIN scores : scores[c] = MaxCountOf(matrix) /\ scores[c] # Num(0)

----------------------------------------------------------------------------
(* Classifier: getGibberishScore and testGibberish on a text and a model *)

\* tables as train builds them: one entry per key, counts >= 1, descending
ModelTables ==
    {t \in Tables :
        /\ \A i \in 1..Len(t) : t[i].y >= 1
        /\ \A i, j \in 1..Len(t) : i < j => (t[i].x # t[j].x /\ t[i].y >= t[j].y)}

StatsChoices ==
    { [min |-> Num(0), max |-> Num(0), avg |-> Num(0)],
      [min |-> Num(1), max |-> Num(2), avg |-> Fin(3, 2)],
      [min |-> Num(2), max |-> Num(2), avg |-> Num(2)],
      [min |-> NaN, max |-> NaN, avg |-> NaN] }

TheModel == [matrix |-> matrix, baseline |-> baseline]

InitClassify ==
    /\ text \in Texts
    /\ matrix \in ModelTables
    /\ baseline \in [good : StatsChoices, bad : StatsChoices]
    /\ scores = EmptyMap
    /\ verdict = <<>>
    /\ SanIdle /\ ValIdle /\ TrainIdle

TestGibberish(thresholdFn, useCache) ==
    /\ verdict = <<>>
    /\ verdict' = <<[thresholdFn |-> thresholdFn, useCache |-> useCache,
                     result |-> testGibberish(text, TheModel, thresholdFn, useCache)]>>
    /\ UNCHANGED <<text, matrix, baseline, scores, sanVars, valVars, trainVars>>

GetGibberishScore(useCache) ==
    /\ scores = EmptyMap /\ verdict = <<>>
    /\ scores' = MapSet(scores, useCache, getGibberishScore(text, TheModel, useCache))
    /\ UNCHANGED <<text, matrix, baseline, verdict, sanVars, valVars, trainVars>>

NextClassify ==
    \/ \E fn \in {Undefined} \cup {Some(f) : f \in ThresholdFns}, useCache \in BOOLEAN :
           TestGibberish(fn, useCache)
    \/ \E useCache \in BOOLEAN : GetGibberishScore(useCache)

SpecClassify == InitClassify /\ [][NextClassify]_vars

\* the threshold the claim names for a call
ClaimedThreshold(call) ==
    IF call.thresholdFn = Undefined
    THEN DivBy(Add(baseline.good.min, baseline.bad.max), 2)
    ELSE CallThresholdFn(call.thresholdFn[1], TheModel)

Degenerate == Len(sanitizeText(text)) < 2

\* C3: a text of fewer than 2 characters after sanitization scores NaN and is
\* never classified as gibberish, whatever the model and the threshold function.
C3_DegenerateTextIsNaNAndNotGibberish ==
    Degenerate => /\ \A c \in DOMAIN scores : IsNaN(scores[c])
                  /\ \A i \in DOMAIN verdict : ~verdict[i].result

\* C3 witness: a two-character text that sanitizes to one character, scored
\* and then tested against a finite threshold.
C3_Witness ==
    /\ Degenerate /\ Len(text) >= 2
    /\ scores # EmptyMap
    /\ verdict # <<>>
    /\ IsFinite(ClaimedThreshold(verdict[1]))

----------------------------------------------------------------------------
(* Trainer: train, then testGibberish of reference lines on its model *)

CorpusChars == {"a", "B", ".", "0", EACUTE}
Corpora == Strings(CorpusChars, MaxCorpusLen)

\* the corpora the calibration is exercised on
CalibrationCorpora == Strings({"a", "B"}, MaxCorpusLen)

LineTexts ==
    { <<>>, <<"a">>, <<"a", "b">>, <<"a", "b", SP>>, <<"b", "a">> }

LineArgs ==
    {ArrayArg(lines) : lines \in Strings(LineTexts, MaxLines)}
      \cup {StringArg(<<>>), StringArg(<<"a", "b", SP, LF, "a", "a">>)}

InitTrain ==
    /\ \/ trainArgs \in [corpus : CalibrationCorpora,
                         goodLines : LineArgs, badLines : LineArgs]
       \/ trainArgs \in [corpus : Corpora,
                         goodLines : {ArrayArg(<<>>)}, badLines : {ArrayArg(<<>>)}]
    /\ model = Undefined
    /\ probe = <<>>
    /\ SanIdle /\ ValIdle /\ ScoreIdle

Train ==
    /\ model = Undefined
    /\ model' = Some(train(trainArgs.corpus, trainArgs.goodLines, trainArgs.badLines))
    /\ UNCHANGED <<trainArgs, probe, sanVars, valVars, scoreVars>>

\* the reference lines as the caller gave them: the array's elements, or the
\* newline-separated pieces of the string
GivenLines(arg) == IF arg.isArray THEN arg.lines ELSE SplitLF(arg.str, <<>>)

\* testGibberish(line, model) for the i-th reference line of one of the sets,
\* handed over as it was given or trimmed first
TestReferenceLine(set, i, trimmed) ==
    /\ model # Undefined
    /\ LET given == GivenLines(IF set = "good" THEN trainArgs.goodLines
                               ELSE trainArgs.badLines)
       IN  /\ i \in 1..Len(given)
           /\ LET line == IF trimmed THEN Trim(given[i]) ELSE given[i]
              IN  probe' = <<[set |-> set, trimmed |-> trimmed, line |-> line,
                              result |-> testGibberish(line, model[1], Undefined, TRUE)]>>
    /\ UNCHANGED <<trainArgs, model, sanVars, valVars, scoreVars>>

NextTrain ==
    \/ Train
    \/ \E set \in {"good", "bad"}, i \in 1..(MaxLines + 1), trimmed \in BOOLEAN :
           TestReferenceLine(set, i, trimmed)

SpecTrain == InitTrain /\ [][NextTrain]_vars

AllFinite(stats) == IsFinite(stats.min) /\ IsFinite(stats.max) /\ IsFinite(stats.avg)

\* C4: train never returns a model whose baselines hold a NaN or another
\* non-finite number: all six baseline numbers of a returned model are finite.
C4_BaselinesFinite ==
    \A i \in DOMAIN model :
        AllFinite(model[i].baseline.good) /\ AllFinite(model[i].baseline.bad)

RECURSIVE SumCounts(_)
SumCounts(mtx) == IF mtx = <<>> THEN 0 ELSE mtx[1].y + SumCounts(Tail(mtx))

CorpusLength == Len(ToLowerCase(sanitizeText(trainArgs.corpus)))

\* C9: the counts of the trained matrix sum to max(L - 1, 0), L the length of
\* the sanitized, lowercased corpus.
C9_BigramCountConservation ==
    \A i \in DOMAIN model :
        SumCounts(model[i].matrix) =
            (IF CorpusLength >= 1 THEN CorpusLength - 1 ELSE 0)

\* C9 witness: a trained corpus whose windows repeat a pair.
C9_Witness ==
    /\ model # Undefined
    /\ CorpusLength = 3
    /\ Len(model[1].matrix) = 1

Separated ==
    model # Undefined /\ Lt(model[1].baseline.bad.max, model[1].baseline.good.min)

Consistent(p) ==
    /\ p.set = "good" => ~p.result
    /\ p.set = "bad"  => p.result

\* C5 as stated: with bad.max < good.min, every good reference line, passed
\* exactly as it was given to train, tests as legitimate and every bad one as
\* gibberish.
C5_ReferenceLinesAsGivenClassified ==
    \A i \in DOMAIN probe : (Separated /\ ~probe[i].trimmed) => Consistent(probe[i])

\* C5 amended: with bad.max < good.min, every good reference line, trimmed of
\* leading and trailing whitespace as the calibrator trims it, tests as
\* legitimate and every bad one as gibberish.
C5_TrimmedReferenceLinesClassified ==
    \A i \in DOMAIN probe : (Separated /\ probe[i].trimmed) => Consistent(probe[i])

\* C5 witness: a good line given with trailing whitespace, trimmed and tested
\* against a model whose baselines are separated.
C5_Witness ==
    /\ Separated
    /\ probe # <<>>
    /\ probe[1].set = "good" /\ probe[1].trimmed
    /\ probe[1].line # GivenLines(trainArgs.goodLines)[1]
    /\ ~probe[1].result

PreparedCorpus == ToLowerCase(sanitizeText(trainArgs.corpus))

\* C11: in the matrix of every model train returns, each key appears in at
\* most one entry, every count is >= 1, and the entries are ordered by count
\* descending.
C11_FrequencyTableInvariant ==
    \A m \in DOMAIN model :
        LET mtx == model[m].matrix
        IN  /\ \A i, j \in 1..Len(mtx) : i # j => mtx[i].x # mtx[j].x
            /\ \A i \in 1..Len(mtx) : Len(mtx[i].x) = 2 /\ mtx[i].y >= 1
            /\ \A i \in 1..(Len(mtx) - 1) : mtx[i].y >= mtx[i + 1].y

\* C11 witness: a trained corpus whose first pair is rarer than a later,
\* repeated pair, so the sort moved the first-seen entry behind it.
C11_Witness ==
    /\ model # Undefined
    /\ Len(model[1].matrix) = 2
    /\ model[1].matrix[1].y > model[1].matrix[2].y
    /\ model[1].matrix[2].x = <<PreparedCorpus[1], PreparedCorpus[2]>>

====
